---------------------------- MODULE Spec2Model ----------------------------
(***************************************************************************)
(* A model of scripts/md_to_html.py: the Markdown -> WeChat HTML converter. *)
(* Texts are TLA+ strings, handled character by character with SubSeq, so   *)
(* the two regular expressions of the program are modelled as the scans     *)
(* they perform.  Spans keep Python's convention: start is 0-based, end is  *)
(* exclusive, so that content[start:end] is SubSeq(content, start+1, end).  *)
(***************************************************************************)
EXTENDS Naturals, Sequences, FiniteSets, TLC

VARIABLES
    pc,            \* position of the running function / of main
    text,          \* the Markdown text the function under run was given
    fs,            \* the filesystem: a function from path to the file's bytes
    out1,          \* what the function under run returned
    out2,          \* what it returned when run again on out1
    client,        \* TRUE when the GenAI client was created (credential present)
    clock,         \* int(time.time() * 1000), counted from the start of the run
    img_matches,   \* process_images: the matches re.finditer yields
    idx,           \* process_images: the match the loop is at (1-based)
    full_prompt,   \* process_images: expand_prompt's result for that match
    success,       \* process_images: generate_image_from_prompt's result
    replacements,  \* process_images: the replacements recorded so far
    calls,         \* the log of invocations and of remote calls, in order
    written,       \* the paths written with write_bytes / write_text, in order
    doc,           \* the parsed HTML document calibrate_code was first given
    soup,          \* calibrate_code: the tree being rewritten
    run,           \* which run of calibrate_code this is (1, or 2 on its own output)
    cal1,          \* what the first run of calibrate_code returned
    cal2,          \* what the second run returned
    input,         \* main: the input file, whether it exists and its text
    title,         \* main: the title passed to build_full_html
    dirs,          \* main: the directories mkdir was called for
    stages,        \* main: the pipeline stages called so far, in order
    logged,        \* main: the errors logged
    output         \* main: the document written to the output path

imgVars ==
    <<client, clock, img_matches, idx, full_prompt, success, replacements, calls, written>>

calVars == <<doc, soup, run, cal1, cal2>>

mainVars == <<input, title, dirs, stages, logged, output>>

vars == <<pc, text, fs, out1, out2, imgVars, calVars, mainVars>>

(***************************************************************************)
(* Bounds of the model                                                      *)
(***************************************************************************)
\* a text given to embed_local_images is the concatenation of at most
\* MaxEmbedPieces pieces of EmbedPieces
MaxEmbedPieces == 3

\* a document given to calibrate_code has at most MaxNodes elements
MaxNodes == 3

\* the text of main's input file is the concatenation of at most
\* MaxMainPieces pieces of MainPieces
MaxMainPieces == 3

\* a text given to process_images is the concatenation of at most
\* MaxImagePieces pieces of ImagePieces
MaxImagePieces == 3

\* a text whose spans are replaced is the concatenation of at most
\* MaxSplicePieces pieces of SplicePieces
MaxSplicePieces == 3

(***************************************************************************)
(* Strings                                                                  *)
(***************************************************************************)
Char(s, i) == SubSeq(s, i, i)

\* s[i-1:] starts with pre (i is 1-based)
StartsWithAt(s, i, pre) ==
    /\ i + Len(pre) - 1 <= Len(s)
    /\ SubSeq(s, i, i + Len(pre) - 1) = pre

EndsWith(s, suf) ==
    /\ Len(suf) <= Len(s)
    /\ SubSeq(s, Len(s) - Len(suf) + 1, Len(s)) = suf

Contains(s, sub) == \E i \in 1..(Len(s) + 1) : StartsWithAt(s, i, sub)

SetMin(S) == CHOOSE m \in S : \A k \in S : m <= k

\* the least index >= from holding character ch, or 0 when there is none
IndexOf(s, ch, from) ==
    LET S == {k \in from..Len(s) : Char(s, k) = ch}
    IN  IF S = {} THEN 0 ELSE SetMin(S)

RECURSIVE Concat(_)
Concat(ps) == IF ps = <<>> THEN "" ELSE Head(ps) \o Concat(Tail(ps))

\* all sequences over S of length at most n
SeqsUpTo(S, n) == UNION {[1..k -> S] : k \in 0..n}

(***************************************************************************)
(* image_to_base64                                                          *)
(***************************************************************************)
B64Chars == "ABCDEFGHIJKLMNOPQRSTUVWXYZabcdefghijklmnopqrstuvwxyz0123456789+/"

B64Char(n) == SubSeq(B64Chars, n + 1, n + 1)

\* base64.b64encode(bytes).decode("utf-8")
RECURSIVE B64Encode(_)
B64Encode(b) ==
    IF Len(b) = 0 THEN ""
    ELSE IF Len(b) = 1 THEN
        B64Char(b[1] \div 4) \o B64Char((b[1] % 4) * 16) \o "=="
    ELSE IF Len(b) = 2 THEN
        B64Char(b[1] \div 4)
        \o B64Char((b[1] % 4) * 16 + b[2] \div 16)
        \o B64Char((b[2] % 16) * 4) \o "="
    ELSE
        B64Char(b[1] \div 4)
        \o B64Char((b[1] % 4) * 16 + b[2] \div 16)
        \o B64Char((b[2] % 16) * 4 + b[3] \div 64)
        \o B64Char(b[3] % 64)
        \o B64Encode(SubSeq(b, 4, Len(b)))

\* mimetypes.guess_type(path)[0], on the extensions the model's paths carry;
\* "" stands for None
GuessType(path) ==
    IF EndsWith(path, ".png") THEN "image/png"
    ELSE IF EndsWith(path, ".jpg") THEN "image/jpeg"
    ELSE IF EndsWith(path, ".gif") THEN "image/gif"
    ELSE ""

ImageToBase64(files, image_path) ==
    LET guessed   == GuessType(image_path)
        mime_type == IF guessed = "" THEN "image/png" ELSE guessed
    IN  "data:" \o mime_type \o ";base64," \o B64Encode(files[image_path])

(***************************************************************************)
(* Span replacement, shared by process_images and embed_local_images        *)
(***************************************************************************)
\* new_content[start:end] = list(replacement)
Splice(s, start, end, replacement) ==
    SubSeq(s, 1, start) \o replacement \o SubSeq(s, end + 1, Len(s))

\* for (start, end), replacement in reversed(replacements): splice
\* (k counts down from Len(replacements))
RECURSIVE ApplyReversedFrom(_, _, _)
ApplyReversedFrom(s, reps, k) ==
    IF k = 0 THEN s
    ELSE ApplyReversedFrom(
             Splice(s, reps[k].start, reps[k].end,
                    reps[k].replacement),
             reps, k - 1)

\* a plausible slip: the reps applied in discovery order, each span
\* read against the already rewritten buffer
RECURSIVE ApplyForwardFrom(_, _, _)
ApplyForwardFrom(s, reps, k) ==
    IF k > Len(reps) THEN s
    ELSE ApplyForwardFrom(
             Splice(s, reps[k].start, reps[k].end,
                    reps[k].replacement),
             reps, k + 1)

ApplyReplacementsForward(s, reps) == ApplyForwardFrom(s, reps, 1)

ApplyReplacements(s, reps) ==
    ApplyReversedFrom(s, reps, Len(reps))

(***************************************************************************)
(* embed_local_images                                                       *)
(***************************************************************************)
NoMatch == [found |-> FALSE]

\* the lookahead left out of the pattern
EmbedLookaheadOkDropped(s, i) == TRUE

\* the lookahead (?!data:|https?://) at 1-based position i
EmbedLookaheadOk(s, i) ==
    /\ ~StartsWithAt(s, i, "data:")
    /\ ~StartsWithAt(s, i, "http://")
    /\ ~StartsWithAt(s, i, "https://")

\* r'!\[([^\]]*)\]\((?!data:|https?://)([^)]+)\)' tried at 1-based position i.
\* [^\]]* runs to the first "]" and [^)]+ to the first ")": neither class holds
\* its own terminator, so no shorter or longer choice can match.
EmbedMatchAt(s, i) ==
    IF ~StartsWithAt(s, i, "![") THEN NoMatch
    ELSE LET rb == IndexOf(s, "]", i + 2)
         IN  IF rb = 0 \/ ~StartsWithAt(s, rb, "](") THEN NoMatch
             ELSE IF ~EmbedLookaheadOk(s, rb + 2) THEN NoMatch
             ELSE LET rp == IndexOf(s, ")", rb + 2)
                  IN  IF rp = 0 \/ rp = rb + 2 THEN NoMatch
                      ELSE [found |-> TRUE,
                            start |-> i - 1,
                            end   |-> rp,
                            alt   |-> SubSeq(s, i + 2, rb - 1),
                            path  |-> SubSeq(s, rb + 2, rp - 1)]

\* list(re.finditer(pattern, content)): each search takes the leftmost
\* position at or after i where the pattern matches, and the next search
\* resumes at the end of that match
RECURSIVE EmbedFindFrom(_, _)
EmbedFindFrom(s, i) ==
    LET at == {j \in i..Len(s) : EmbedMatchAt(s, j).found}
    IN  IF at = {} THEN <<>>
        ELSE LET m == EmbedMatchAt(s, SetMin(at))
             IN  <<m>> \o EmbedFindFrom(s, m.end + 1)

EmbedFindAll(s) == EmbedFindFrom(s, 1)

\* base_dir / img_path_str
JoinPath(base_dir, p) ==
    IF StartsWithAt(p, 1, "/") THEN p ELSE base_dir \o "/" \o p

\* a plausible slip: the loop left at the first missing file
RECURSIVE EmbedReplacementsStopAtMissing(_, _, _, _)
EmbedReplacementsStopAtMissing(matches, k, base_dir, files) ==
    IF k > Len(matches) THEN <<>>
    ELSE LET m        == matches[k]
             img_path == JoinPath(base_dir, m.path)
         IN  IF img_path \in DOMAIN files
             THEN <<[start |-> m.start, end |-> m.end,
                     replacement |-> "![" \o m.alt \o "]("
                                     \o ImageToBase64(files, img_path) \o ")"]>>
                  \o EmbedReplacementsStopAtMissing(matches, k + 1, base_dir, files)
             ELSE <<>>

\* the loop body of embed_local_images for matches k..: the replacements list
RECURSIVE EmbedReplacementsFrom(_, _, _, _)
EmbedReplacementsFrom(matches, k, base_dir, files) ==
    IF k > Len(matches) THEN <<>>
    ELSE LET m        == matches[k]
             img_path == JoinPath(base_dir, m.path)
             rest     == EmbedReplacementsFrom(matches, k + 1, base_dir, files)
         IN  IF img_path \in DOMAIN files
             THEN <<[start |-> m.start, end |-> m.end,
                     replacement |-> "![" \o m.alt \o "]("
                                     \o ImageToBase64(files, img_path) \o ")"]>>
                  \o rest
             ELSE rest

EmbedReplacements(matches, base_dir, files) ==
    EmbedReplacementsFrom(matches, 1, base_dir, files)

EmbedLocalImages(content, base_dir, files) ==
    LET matches == EmbedFindAll(content)
    IN  IF matches = <<>> THEN content
        ELSE ApplyReplacements(content,
                               EmbedReplacements(matches, base_dir, files))

(***************************************************************************)
(* The embedder run twice over a text, the filesystem held fixed            *)
(***************************************************************************)
\* the idle values of process_images' state
ImgIdle ==
    /\ client = FALSE
    /\ clock = 0
    /\ img_matches = <<>>
    /\ idx = 0
    /\ full_prompt = ""
    /\ success = FALSE
    /\ replacements = <<>>
    /\ calls = <<>>
    /\ written = <<>>

\* the idle values of calibrate_code's state
CalIdle ==
    /\ doc = <<>>
    /\ soup = <<>>
    /\ run = 0
    /\ cal1 = <<>>
    /\ cal2 = <<>>

\* the idle values of main's state
MainIdle ==
    /\ input = [exists |-> FALSE, content |-> ""]
    /\ title = ""
    /\ dirs = {}
    /\ stages = <<>>
    /\ logged = <<>>
    /\ output = <<>>

BaseDir == "/art"

EmbedPieces ==
    { "![a](a.png)", "![](pic/b.jpg)", "![d](data:image/png;base64,QQ==)",
      "![h](http://h/i.png)", "![s](https://h/i.png)",
      "![x", "](", ")" }

EmbedTexts == {Concat(ps) : ps \in SeqsUpTo(EmbedPieces, MaxEmbedPieces)}

\* the files that may lie beside the article, each with its bytes
LocalFiles ==
    [p \in {"/art/a.png", "/art/pic/b.jpg"} |->
        IF p = "/art/a.png" THEN <<137, 80, 78, 71>> ELSE <<255, 216>>]

Restrict(f, S) == [x \in S |-> f[x]]

InitEmbed ==
    /\ pc = "embed"
    /\ text \in EmbedTexts
    /\ fs \in {Restrict(LocalFiles, S) : S \in SUBSET DOMAIN LocalFiles}
    /\ out1 = ""
    /\ out2 = ""
    /\ ImgIdle
    /\ CalIdle
    /\ MainIdle

EmbedFirst ==
    /\ pc = "embed"
    /\ out1' = EmbedLocalImages(text, BaseDir, fs)
    /\ pc' = "embed_again"
    /\ UNCHANGED <<text, fs, out2, imgVars, calVars, mainVars>>

EmbedSecond ==
    /\ pc = "embed_again"
    /\ out2' = EmbedLocalImages(out1, BaseDir, fs)
    /\ pc' = "embedded"
    /\ UNCHANGED <<text, fs, out1, imgVars, calVars, mainVars>>

NextEmbed == EmbedFirst \/ EmbedSecond

SpecEmbed == InitEmbed /\ [][NextEmbed]_vars


(***************************************************************************)
(* process_images: the placeholder scanner                                  *)
(***************************************************************************)
\* re.IGNORECASE on the letters of the pattern
LowerChar(c) ==
    CASE c = "I" -> "i"
      [] c = "M" -> "m"
      [] c = "A" -> "a"
      [] c = "G" -> "g"
      [] c = "E" -> "e"
      [] OTHER   -> c

RECURSIVE Lower(_)
Lower(s) == IF s = "" THEN "" ELSE LowerChar(Char(s, 1)) \o Lower(Tail(s))

\* r'!\[Image\]\((.*?)\)' with re.IGNORECASE, tried at 1-based position i:
\* the lazy (.*?) ends at the first ")", and "." matches no line break
ImageMatchAt(s, i) ==
    IF \/ i + 8 > Len(s)
       \/ Char(s, i) # "!"
       \/ Lower(SubSeq(s, i, i + 8)) # "![image](" THEN NoMatch
    ELSE LET rp == IndexOf(s, ")", i + 9)
             nl == IndexOf(s, "\n", i + 9)
         IN  IF rp = 0 \/ (nl # 0 /\ nl < rp) THEN NoMatch
             ELSE [found |-> TRUE,
                   start |-> i - 1,
                   end   |-> rp,
                   desc  |-> SubSeq(s, i + 9, rp - 1)]

\* re.finditer(pattern, content, re.IGNORECASE): each search takes the
\* leftmost position at or after i where the pattern matches, and the next
\* search resumes at the end of that match
RECURSIVE ImageFindFrom(_, _)
ImageFindFrom(s, i) ==
    LET at == {j \in i..Len(s) : ImageMatchAt(s, j).found}
    IN  IF at = {} THEN <<>>
        ELSE LET m == ImageMatchAt(s, SetMin(at))
             IN  <<m>> \o ImageFindFrom(s, m.end + 1)

ImageFindAll(s) == ImageFindFrom(s, 1)

(***************************************************************************)
(* process_images: the loop over the placeholders                           *)
(***************************************************************************)
AssetsDir == "/art/assets"

Digits == "0123456789"

\* str(n) of a non-negative int
RECURSIVE ToStr(_)
ToStr(n) ==
    IF n < 10 THEN SubSeq(Digits, n + 1, n + 1)
    ELSE ToStr(n \div 10) \o SubSeq(Digits, (n % 10) + 1, (n % 10) + 1)

\* assets_dir / f"gen_{timestamp}.png"
ImgPath(assets_dir, timestamp) ==
    assets_dir \o "/gen_" \o ToStr(timestamp) \o ".png"

IsSpace(c) == c \in {" ", "\n", "\t"}

\* str.strip()
RECURSIVE Strip(_)
Strip(s) ==
    IF s = "" THEN ""
    ELSE IF IsSpace(Char(s, 1)) THEN Strip(Tail(s))
    ELSE IF IsSpace(Char(s, Len(s))) THEN Strip(SubSeq(s, 1, Len(s) - 1))
    ELSE s

\* what the text model may answer to expand_prompt's remote call
ExpandedTexts == {"  A cat, flat illustration, Morandi colors\n"}

\* the bytes the image model may return as inline_data
ImageBytes == <<137, 80, 78>>

\* the ways expand_prompt can go: without a client it returns at once;
\* with one, the remote call answers or raises
ExpandOutcomes(c) == IF ~c THEN {"no_client"} ELSE {"answer", "error"}

\* the client checked nowhere: the remote call made whatever the credential
GenerateOutcomesUnguarded(c) == {"image", "no_image", "error"}

\* the ways generate_image_from_prompt can go: `if not client: return False`,
\* else the remote call returns image data, returns none, or raises
GenerateOutcomes(c) ==
    IF ~c THEN {"no_client"} ELSE {"image", "no_image", "error"}

\* the replacement left as the marker it replaces
FallbackRefKeepsMarker(desc) == "![Image](" \o desc \o ")"

\* the failure branch's replacement
FallbackRef(desc) ==
    "![" \o desc \o "](https://placehold.co/800x400/FFF9E6/FF9E66.png?text="
    \o desc \o ")"

\* the success branch's replacement
EmbeddedRef(desc, b64_uri) == "![" \o desc \o "](" \o b64_uri \o ")"

\* the loop left at the first placeholder whose image was not generated
AfterRecordAbortOnFailure(ok, k, n) ==
    IF ok /\ k < n THEN "expand" ELSE "splice"

\* the for loop's next position after match k of n
AfterRecord(ok, k, n) == IF k < n THEN "expand" ELSE "splice"

\* pattern, matches = re.finditer(...), replacements = []
PI_Scan ==
    /\ pc = "scan"
    /\ img_matches' = ImageFindAll(text)
    /\ idx' = 1
    /\ replacements' = <<>>
    /\ pc' = IF img_matches' = <<>> THEN "splice" ELSE "expand"
    /\ UNCHANGED <<text, fs, out1, out2, client, clock, full_prompt, success,
                   calls, written, calVars, mainVars>>

\* full_prompt = expand_prompt(desc)
PI_Expand ==
    /\ pc = "expand"
    /\ LET desc == img_matches[idx].desc
       IN  \E o \in ExpandOutcomes(client) :
             \/ /\ o = "no_client"
                /\ full_prompt' = desc
                /\ calls' = Append(calls, [op |-> "expand_prompt", k |-> idx])
             \/ /\ o = "answer"
                /\ \E t \in ExpandedTexts : full_prompt' = Strip(t)
                /\ calls' = calls \o <<[op |-> "expand_prompt", k |-> idx],
                                       [op |-> "remote_text", k |-> idx]>>
             \/ /\ o = "error"
                /\ full_prompt' = desc
                /\ calls' = calls \o <<[op |-> "expand_prompt", k |-> idx],
                                       [op |-> "remote_text", k |-> idx]>>
    /\ pc' = "generate"
    /\ UNCHANGED <<text, fs, out1, out2, client, clock, img_matches, idx, success,
                   replacements, written, calVars, mainVars>>

\* timestamp, img_path, success = generate_image_from_prompt(full_prompt, img_path)
PI_Generate ==
    /\ pc = "generate"
    /\ LET img_path == ImgPath(AssetsDir, clock)
       IN  \E o \in GenerateOutcomes(client) :
             \/ /\ o = "no_client"
                /\ success' = FALSE
                /\ calls' = Append(calls,
                                   [op |-> "generate_image_from_prompt", k |-> idx])
                /\ UNCHANGED <<fs, written>>
             \/ /\ o = "image"
                /\ success' = TRUE
                /\ calls' = calls \o <<[op |-> "generate_image_from_prompt", k |-> idx],
                                       [op |-> "remote_image", k |-> idx]>>
                /\ fs' = [p \in DOMAIN fs \cup {img_path} |->
                             IF p = img_path THEN ImageBytes ELSE fs[p]]
                /\ written' = Append(written, img_path)
             \/ /\ o \in {"no_image", "error"}
                /\ success' = FALSE
                /\ calls' = calls \o <<[op |-> "generate_image_from_prompt", k |-> idx],
                                       [op |-> "remote_image", k |-> idx]>>
                /\ UNCHANGED <<fs, written>>
    /\ pc' = "record"
    /\ UNCHANGED <<text, out1, out2, client, clock, img_matches, idx, full_prompt, replacements,
                   calVars, mainVars>>

\* if success: ... replacements.append(...) else: replacements.append(...);
\* the clock may have moved on before the next placeholder's timestamp is taken
PI_Record ==
    /\ pc = "record"
    /\ LET m        == img_matches[idx]
           img_path == ImgPath(AssetsDir, clock)
           rep      == IF success
                       THEN EmbeddedRef(m.desc, ImageToBase64(fs, img_path))
                       ELSE FallbackRef(m.desc)
       IN  replacements' = Append(replacements,
                                  [start |-> m.start, end |-> m.end,
                                   replacement |-> rep])
    /\ pc' = AfterRecord(success, idx, Len(img_matches))
    /\ idx' = idx + 1
    /\ \E dt \in {0, 1} : clock' = clock + dt
    /\ UNCHANGED <<text, fs, out1, out2, client, img_matches, full_prompt, success, calls, written,
                   calVars, mainVars>>

\* new_content = list(content); the reversed splices; return "".join(new_content)
PI_Return ==
    /\ pc = "splice"
    /\ out1' = ApplyReplacements(text, replacements)
    /\ pc' = "returned"
    /\ UNCHANGED <<text, fs, out2, imgVars, calVars, mainVars>>

ProcessImagesNext == PI_Scan \/ PI_Expand \/ PI_Generate \/ PI_Record \/ PI_Return

ImagePieces ==
    { "![Image](cat)", "![IMAGE](Image)", "![Image](", ")", "Image", "](", "\n" }

ImageTexts == {Concat(ps) : ps \in SeqsUpTo(ImagePieces, MaxImagePieces)}

InitImages ==
    /\ pc = "scan"
    /\ text \in ImageTexts
    /\ fs = Restrict(LocalFiles, {})
    /\ out1 = ""
    /\ out2 = ""
    /\ client \in BOOLEAN
    /\ clock = 0
    /\ img_matches = <<>>
    /\ idx = 0
    /\ full_prompt = ""
    /\ success = FALSE
    /\ replacements = <<>>
    /\ calls = <<>>
    /\ written = <<>>
    /\ CalIdle
    /\ MainIdle

SpecImages == InitImages /\ [][ProcessImagesNext]_vars

(***************************************************************************)
(* Claims about embed_local_images                                          *)
(***************************************************************************)
HasNetTarget(m) ==
    \/ StartsWithAt(m.path, 1, "data:")
    \/ StartsWithAt(m.path, 1, "http://")
    \/ StartsWithAt(m.path, 1, "https://")

MatchesOf(s) == LET ms == EmbedFindAll(s) IN {ms[k] : k \in 1..Len(ms)}

RECURSIVE EmbedExpectedFrom(_, _, _, _, _)
EmbedExpectedFrom(s, matches, k, pos, files) ==
    IF k > Len(matches) THEN SubSeq(s, pos + 1, Len(s))
    ELSE LET m == matches[k]
             p == JoinPath(BaseDir, m.path)
         IN  SubSeq(s, pos + 1, m.start)
             \o (IF p \in DOMAIN files
                 THEN "![" \o m.alt \o "](" \o ImageToBase64(files, p) \o ")"
                 ELSE SubSeq(s, m.start + 1, m.end))
             \o EmbedExpectedFrom(s, matches, k + 1, m.end, files)

\* C6: a local reference whose file does not exist stands unchanged in the
\* output, and every other local reference whose file exists is replaced by
\* its data URI, wherever the missing one sits.
C6_MissingFileKept ==
    pc \in {"embed_again", "embedded"} =>
        out1 = EmbedExpectedFrom(text, EmbedFindAll(text), 1, 0, fs)

\* a missing reference between two references whose files exist
C6_Witness ==
    /\ pc = "embed_again"
    /\ LET ms == EmbedFindAll(text)
       IN  /\ Len(ms) = 3
           /\ JoinPath(BaseDir, ms[1].path) \in DOMAIN fs
           /\ JoinPath(BaseDir, ms[2].path) \notin DOMAIN fs
           /\ JoinPath(BaseDir, ms[3].path) \in DOMAIN fs
           /\ Contains(out1, SubSeq(text, ms[2].start + 1, ms[2].end))


(***************************************************************************)
(* Claims about process_images                                              *)
(***************************************************************************)
\* the text process_images was given has been rewritten and returned
Returned == pc = "returned"

\* `out`, read from 0-based offset q on, is the text `s` from offset pos on
\* with each placeholder from match k on replaced, at its own position, by an
\* image reference whose alt text is the description and whose target is a
\* base64 data URI or the placehold.co URL carrying the description
RECURSIVE WellReplacedFrom(_, _, _, _, _, _)
WellReplacedFrom(s, matches, k, pos, out, q) ==
    IF k > Len(matches)
    THEN SubSeq(out, q + 1, Len(out)) = SubSeq(s, pos + 1, Len(s))
    ELSE LET m     == matches[k]
             gap   == SubSeq(s, pos + 1, m.start)
             head  == "![" \o m.desc \o "]("
             t     == q + Len(gap) + Len(head)
             url   == "https://placehold.co/800x400/FFF9E6/FF9E66.png?text="
                      \o m.desc \o ")"
             close == IndexOf(out, ")", t + 1)
         IN  /\ StartsWithAt(out, q + 1, gap \o head)
             /\ \/ /\ StartsWithAt(out, t + 1, url)
                   /\ WellReplacedFrom(s, matches, k + 1, m.end, out, t + Len(url))
                \/ /\ StartsWithAt(out, t + 1, "data:image/png;base64,")
                   /\ close # 0
                   /\ \A j \in (t + 23)..(close - 1) :
                          Contains(B64Chars \o "=", Char(out, j))
                   /\ WellReplacedFrom(s, matches, k + 1, m.end, out, close)

\* the reference written for description d itself opens a marker
OpensMarker(d) == Contains(Lower("![" \o d \o "]("), "![image](")

\* C1 as claimed: the returned text holds no occurrence of the marker pattern
C1_NoMarkerLeft == Returned => ImageFindAll(out1) = <<>>

\* C1 as amended: each placeholder is replaced at its own position by an image
\* reference with the description as alt text and a data URI or the
\* placehold.co URL as target; the returned text holds no occurrence of the
\* marker pattern exactly when no description d makes "![d](" contain the
\* marker opener "![Image](" (d is not the label, does not start with
\* "Image](", end with "![Image" or contain "![Image](").
C1_ReplacedInPlace ==
    Returned =>
        LET ms == ImageFindAll(text)
        IN  /\ WellReplacedFrom(text, ms, 1, 0, out1, 0)
            /\ (ImageFindAll(out1) = <<>>)
                   <=> (\A k \in 1..Len(ms) : ~OpensMarker(ms[k].desc))

\* two placeholders, one embedded and one fallen back, and no marker left
C1_Witness ==
    /\ Returned
    /\ Len(ImageFindAll(text)) >= 2
    /\ Contains(out1, "](data:image/png;base64,")
    /\ Contains(out1, "](https://placehold.co/")
    /\ ImageFindAll(out1) = <<>>

RemoteCalls == {i \in 1..Len(calls) : calls[i].op \in {"remote_text", "remote_image"}}

\* what process_images returns when every placeholder falls back
RECURSIVE FallbackExpectedFrom(_, _, _, _)
FallbackExpectedFrom(s, matches, k, pos) ==
    IF k > Len(matches) THEN SubSeq(s, pos + 1, Len(s))
    ELSE SubSeq(s, pos + 1, matches[k].start)
         \o "![" \o matches[k].desc
         \o "](https://placehold.co/800x400/FFF9E6/FF9E66.png?text="
         \o matches[k].desc \o ")"
         \o FallbackExpectedFrom(s, matches, k + 1, matches[k].end)

\* C4: without a client no remote call is made and no image file is written,
\* and every placeholder is replaced by the placehold.co reference carrying
\* its description as alt text and as the text query value.
C4_NoClientFallback ==
    ~client =>
        /\ RemoteCalls = {}
        /\ written = <<>>
        /\ fs = Restrict(LocalFiles, {})
        /\ Returned => out1 = FallbackExpectedFrom(text, ImageFindAll(text), 1, 0)

C4_Witness ==
    /\ ~client
    /\ Returned
    /\ Len(ImageFindAll(text)) >= 2
    /\ out1 # text

\* the placeholders generate_image_from_prompt was invoked for, in order
GenerateCalls ==
    LET IsGen(c) == c.op = "generate_image_from_prompt"
        gen      == SelectSeq(calls, IsGen)
    IN  [i \in 1..Len(gen) |-> gen[i].k]

\* C5: generate_image_from_prompt is invoked once per placeholder, in document
\* order and never again, whatever the earlier outcomes: at any moment the
\* invocations are those for placeholders 1..j in that order, and on return
\* all n placeholders were attempted and each has its replacement.
C5_OncePerPlaceholder ==
    LET n   == Len(img_matches)
        gen == GenerateCalls
    IN  /\ gen = [i \in 1..Len(gen) |-> i]
        /\ Len(gen) <= n
        /\ Len(replacements) <= Len(gen)
        /\ pc \in {"splice", "returned"} =>
               /\ img_matches = ImageFindAll(text)
               /\ Len(gen) = n
               /\ Len(replacements) = n
               /\ \A i \in 1..n :
                      /\ replacements[i].start = img_matches[i].start
                      /\ replacements[i].end = img_matches[i].end

\* the first of three placeholders failed and the later ones were generated
C5_Witness ==
    /\ Returned
    /\ client
    /\ Len(ImageFindAll(text)) = 3
    /\ StartsWithAt(replacements[1].replacement,
                    Len(replacements[1].replacement) - 4, "=cat)")
    /\ Contains(replacements[2].replacement, "](data:")
    /\ Contains(replacements[3].replacement, "](data:")


(***************************************************************************)
(* The document tree                                                        *)
(*                                                                         *)
(* A parsed document is the sequence of its elements in document order,     *)
(* each with its tag, its parent (0 for the top), its style attribute ("" *)
(* when it has none) and the text it directly holds.  BeautifulSoup's parse *)
(* and str() are taken to map a tree to its markup and back.                *)
(***************************************************************************)
RECURSIVE Ancestors(_, _)
Ancestors(d, i) ==
    IF d[i].parent = 0 THEN {}
    ELSE {d[i].parent} \cup Ancestors(d, d[i].parent)

Descendants(d, i) == {j \in 1..Len(d) : i \in Ancestors(d, j)}

\* the indices of S in increasing order
RECURSIVE Ascending(_)
Ascending(S) ==
    IF S = {} THEN <<>> ELSE <<SetMin(S)>> \o Ascending(S \ {SetMin(S)})

\* soup.find_all(tag): the elements of that tag in document order
FindAll(d, tag) == Ascending({i \in 1..Len(d) : d[i].tag = tag})

\* soup.find(tag): the first of them, 0 for None
Find(d, tag) == IF FindAll(d, tag) = <<>> THEN 0 ELSE FindAll(d, tag)[1]

\* element.get_text(strip=True): the strings below the element, each
\* stripped, joined
RECURSIVE JoinStripped(_, _)
JoinStripped(d, is) ==
    IF is = <<>> THEN ""
    ELSE Strip(d[Head(is)].text) \o JoinStripped(d, Tail(is))

GetTextStripped(d, i) == JoinStripped(d, Ascending({i} \cup Descendants(d, i)))

(***************************************************************************)
(* get_style_mapping and apply_inline_styles                                *)
(***************************************************************************)
\* the keys of the mapping, in the dict's order
StyleTags ==
    << "body", "h1", "h2", "h3", "p", "strong", "blockquote", "ul", "ol", "li",
       "pre", "code", "img", "hr", "article_container", "article_content" >>

Styles(tag) ==
    CASE tag = "body" -> "font-family: -apple-system, BlinkMacSystemFont, 'PingFang SC', 'Hiragino Sans GB', 'Microsoft YaHei', sans-serif; line-height: 1.75; color: #333333; background: #FAF9F5; margin: 0; padding: 0;"
      [] tag = "h1" -> "font-size: 1.6rem; font-weight: 700; color: #222; margin-bottom: 24px; line-height: 1.4;"
      [] tag = "h2" -> "display: inline-block; background: #E9C4B1; color: #222; font-size: 1.15rem; padding: 4px 16px; border-radius: 20px; margin: 40px 0 20px; font-weight: 600; box-shadow: 2px 2px 0px rgba(0, 0, 0, 0.05);"
      [] tag = "h3" -> "font-size: 1.05rem; font-weight: 600; color: #333333; margin: 28px 0 12px; border-left: 4px solid #FF9E66; padding-left: 10px; line-height: 1.2;"
      [] tag = "p" -> "margin-bottom: 20px; text-align: justify; letter-spacing: 0.03em; font-size: 1rem;"
      [] tag = "strong" -> "color: #D35400; background: linear-gradient(180deg, transparent 65%, rgba(255, 158, 102, 0.2) 65%); padding: 0 2px;"
      [] tag = "blockquote" -> "background: #FFF9E6; border-left: 4px solid #FF9E66; border-radius: 12px; padding: 16px 20px; margin: 24px 0; color: #5F5F5F; font-size: 0.95rem;"
      [] tag = "ul" -> "padding-left: 20px; margin-bottom: 24px; color: #5F5F5F;"
      [] tag = "ol" -> "padding-left: 20px; margin-bottom: 24px; color: #5F5F5F;"
      [] tag = "li" -> "margin-bottom: 8px;"
      [] tag = "pre" -> "background: #282C34; border-radius: 12px; padding: 40px 20px 20px; position: relative; overflow-x: auto; margin: 24px 0; color: #ABB2BF; font-size: 0.85rem; line-height: 1.6;"
      [] tag = "code" -> "font-family: 'Fira Code', Consolas, monospace;"
      [] tag = "img" -> "display: block; max-width: 100%; border-radius: 12px; margin: 24px auto; box-shadow: 0 4px 12px rgba(0, 0, 0, 0.08);"
      [] tag = "hr" -> "border: 0; height: 1px; background: #E0E0E0; margin: 40px 60px;"
      [] tag = "article_container" -> "max-width: 680px; margin: 0 auto; background: #FAF9F5; min-height: 100vh;"
      [] tag = "article_content" -> "padding: 24px 20px 60px; background: #FAF9F5;"

ExemptTags == {"body", "article_container", "article_content"}

InlineCodeStyle ==
    "background: #F0EEE6; color: #C04848; padding: 2px 6px; border-radius: 4px; font-size: 0.9em;"

FirstPStyle ==
    "background: #FFF; border: 1px solid #EAEAEA; padding: 24px; border-radius: 12px; font-size: 1.05rem; color: #444; box-shadow: 0 8px 16px rgba(0, 0, 0, 0.04); position: relative; overflow: hidden;"
    \o " border-top: 4px solid #FF9E66;"

\* the parent's name never taken for "pre"
IsBlockCodeNever(d, i) == FALSE

\* element.parent.name == "pre"
IsBlockCode(d, i) == d[i].parent # 0 /\ d[d[i].parent].tag = "pre"

\* the body of the inner loop for one element of tag `tag`
StyledElement(d, i, tag) ==
    LET current_style == d[i].style
        new_style     == Styles(tag)
    IN  IF tag = "code"
        THEN IF IsBlockCode(d, i) THEN d[i]
             ELSE [d[i] EXCEPT !.style = InlineCodeStyle \o current_style]
        ELSE [d[i] EXCEPT !.style = new_style \o " " \o current_style]

\* for tag in styles: ... for element in soup.find_all(tag): ...
\* (from the k-th key of the mapping on)
RECURSIVE ApplyTagStylesFrom(_, _)
ApplyTagStylesFrom(d, k) ==
    IF k > Len(StyleTags) THEN d
    ELSE LET tag == StyleTags[k]
         IN  IF tag \in ExemptTags THEN ApplyTagStylesFrom(d, k + 1)
             ELSE ApplyTagStylesFrom(
                      [i \in 1..Len(d) |->
                          IF d[i].tag = tag THEN StyledElement(d, i, tag) ELSE d[i]],
                      k + 1)

\* first_p = soup.find("p"); if first_p: ...
StyleFirstP(d) ==
    LET first_p == Find(d, "p")
    IN  IF first_p = 0 THEN d
        ELSE [d EXCEPT ![first_p].style = FirstPStyle \o " " \o d[first_p].style]

ApplyInlineStyles(d) == StyleFirstP(ApplyTagStylesFrom(d, 1))

(***************************************************************************)
(* calibrate_code                                                           *)
(***************************************************************************)
\* not p.get_text(strip=True) and not p.find("img")
IsEmptyParagraph(d, i) ==
    /\ GetTextStripped(d, i) = ""
    /\ ~\E j \in Descendants(d, i) : d[j].tag = "img"

\* for p in soup.find_all("p"): if ...: p.decompose()
\* ps is the list find_all returned; gone holds the elements decomposed so far.
\* An element decomposed with an ancestor has lost its contents: it is found
\* empty in its turn and decomposed again, which changes nothing.
RECURSIVE DecomposeEmptyFrom(_, _, _, _)
DecomposeEmptyFrom(d, ps, k, gone) ==
    IF k > Len(ps) THEN gone
    ELSE IF ps[k] \in gone \/ IsEmptyParagraph(d, ps[k])
         THEN DecomposeEmptyFrom(d, ps, k + 1,
                                 gone \cup {ps[k]} \cup Descendants(d, ps[k]))
         ELSE DecomposeEmptyFrom(d, ps, k + 1, gone)

\* the tree without the decomposed elements
Without(d, gone) ==
    LET kept   == Ascending({i \in 1..Len(d) : i \notin gone})
        pos(i) == Cardinality({j \in 1..i : j \notin gone})
    IN  [n \in 1..Len(kept) |->
            [d[kept[n]] EXCEPT !.parent =
                IF d[kept[n]].parent = 0 THEN 0 ELSE pos(d[kept[n]].parent)]]

RemoveEmptyParagraphs(d) ==
    Without(d, DecomposeEmptyFrom(d, FindAll(d, "p"), 1, {}))

(***************************************************************************)
(* calibrate_code run on a document, then on what it returned               *)
(***************************************************************************)
\* the elements a document is drawn from: tag, own text, style attribute
ElementKinds ==
    { [tag |-> "p",    text |-> " \n",  style |-> ""],
      [tag |-> "p",    text |-> "text", style |-> ""],
      [tag |-> "p",    text |-> "text", style |-> "color: red;"],
      [tag |-> "code", text |-> "x",    style |-> ""],
      [tag |-> "code", text |-> "x",    style |-> "color: red;"],
      [tag |-> "pre",  text |-> "",     style |-> ""],
      [tag |-> "img",  text |-> "",     style |-> ""] }

\* where the next element of a document in the making may hang: the top, the
\* last element, or one of its ancestors; never below an img, a void element
OpenAt(d) ==
    IF d = <<>> THEN {0}
    ELSE {0} \cup {a \in {Len(d)} \cup Ancestors(d, Len(d)) : d[a].tag # "img"}

\* the documents of at most n elements
RECURSIVE DocsUpTo(_)
DocsUpTo(n) ==
    IF n = 0 THEN {<<>>}
    ELSE LET shorter == DocsUpTo(n - 1)
         IN  shorter \cup
             UNION { { Append(d, [tag |-> e.tag, parent |-> q,
                                  style |-> e.style, text |-> e.text])
                       : e \in ElementKinds, q \in OpenAt(d) }
                     : d \in {x \in shorter : Len(x) = n - 1} }

Docs == DocsUpTo(MaxNodes)

InitCalib ==
    /\ pc = "style"
    /\ text = ""
    /\ fs = Restrict(LocalFiles, {})
    /\ out1 = ""
    /\ out2 = ""
    /\ ImgIdle
    /\ doc \in Docs
    /\ soup = doc
    /\ run = 1
    /\ cal1 = <<>>
    /\ cal2 = <<>>
    /\ MainIdle

\* soup = BeautifulSoup(html_content, "html.parser"); apply_inline_styles(soup)
Cal_Style ==
    /\ pc = "style"
    /\ soup' = ApplyInlineStyles(soup)
    /\ pc' = "clean"
    /\ UNCHANGED <<text, fs, out1, out2, imgVars, doc, run, cal1, cal2, mainVars>>

\* the loop removing the empty paragraphs; return str(soup)
Cal_Clean ==
    /\ pc = "clean"
    /\ soup' = RemoveEmptyParagraphs(soup)
    /\ pc' = "calibrated"
    /\ IF run = 1 THEN cal1' = soup' /\ cal2' = cal2
                  ELSE cal2' = soup' /\ cal1' = cal1
    /\ UNCHANGED <<text, fs, out1, out2, imgVars, doc, run, mainVars>>

\* calibrate_code called on the document it returned
Cal_Again ==
    /\ pc = "calibrated"
    /\ run = 1
    /\ run' = 2
    /\ soup' = cal1
    /\ pc' = "style"
    /\ UNCHANGED <<text, fs, out1, out2, imgVars, doc, cal1, cal2, mainVars>>

NextCalib == Cal_Style \/ Cal_Clean \/ Cal_Again

SpecCalib == InitCalib /\ [][NextCalib]_vars


(***************************************************************************)
(* Claims about calibrate_code and apply_inline_styles                      *)
(***************************************************************************)
\* C2: calibrate_code applied to its own output returns it unchanged, the
\* style attribute of every element included.
C2_CalibrateIdempotent ==
    (pc = "calibrated" /\ run = 2) => cal2 = cal1

\* C8: in the document calibrate_code returns, when a paragraph is present the
\* first paragraph carries the lead-paragraph style on top of the p style, and
\* no other paragraph carries the lead-paragraph style.
C8_LeadParagraphFirst ==
    (pc = "calibrated" /\ run = 1) =>
        LET ps == FindAll(cal1, "p")
        IN  ps # <<>> =>
              /\ StartsWithAt(cal1[ps[1]].style, 1,
                              FirstPStyle \o " " \o Styles("p") \o " ")
              /\ \A k \in 2..Len(ps) : ~Contains(cal1[ps[k]].style, FirstPStyle)

CodeElements(d) == {i \in 1..Len(d) : d[i].tag = "code"}

PreElements(d) == {i \in 1..Len(d) : d[i].tag = "pre"}

\* C9: after apply_inline_styles every code element whose parent is not a pre
\* carries the inline-code style, no code element whose parent is a pre
\* carries it, the style of an inline code element differs from the style of
\* every pre, and no element carries both the inline-code and the pre style.
C9_InlineCodeDistinct ==
    pc = "clean" =>
        /\ \A i \in CodeElements(soup) :
               IF soup[i].parent # 0 /\ soup[soup[i].parent].tag = "pre"
               THEN ~Contains(soup[i].style, InlineCodeStyle)
               ELSE StartsWithAt(soup[i].style, 1, InlineCodeStyle)
        /\ \A i \in CodeElements(soup) : \A j \in PreElements(soup) :
               (soup[i].parent = 0 \/ soup[soup[i].parent].tag # "pre")
                   => soup[i].style # soup[j].style
        /\ \A j \in PreElements(soup) :
               StartsWithAt(soup[j].style, 1, Styles("pre") \o " ")
        /\ \A i \in 1..Len(soup) :
               ~(Contains(soup[i].style, InlineCodeStyle)
                 /\ Contains(soup[i].style, Styles("pre")))

\* a pre holding a code element, beside an inline code element, just styled
C9_Witness ==
    /\ pc = "clean"
    /\ run = 1
    /\ \E i, j, k \in 1..Len(soup) :
          /\ soup[j].tag = "pre"
          /\ soup[i].tag = "code" /\ soup[i].parent = j
          /\ soup[k].tag = "code" /\ soup[k].parent # j
          /\ soup[k].style = InlineCodeStyle \o "color: red;"
          /\ soup[i].style = "color: red;"


(***************************************************************************)
(* main: the title                                                          *)
(***************************************************************************)
\* the source's default title is a Chinese literal; this stands for it
DefaultTitle == "Tech fast-food popular science"

\* the number of characters \s+ can take at most from 1-based position j
RECURSIVE SpaceRun(_, _)
SpaceRun(s, j) ==
    IF j > Len(s) \/ ~IsSpace(Char(s, j)) THEN 0 ELSE 1 + SpaceRun(s, j + 1)

\* the 1-based position just past the line holding position j
LineEnd(s, j) ==
    LET nl == IndexOf(s, "\n", j) IN IF nl = 0 THEN Len(s) + 1 ELSE nl

\* r'^#\s+(.+)$' with re.MULTILINE, tried at 1-based position i.  \s+ takes
\* as many of the white characters after "#" as leave (.+) one character that
\* is no line break; (.+) then runs to the end of that line, where $ holds.
TitleMatchAt(s, i) ==
    IF ~(i = 1 \/ Char(s, i - 1) = "\n") \/ Char(s, i) # "#" THEN NoMatch
    ELSE LET w    == SpaceRun(s, i + 1)
             takes == {k \in 1..w : /\ i + 1 + k <= Len(s)
                                    /\ Char(s, i + 1 + k) # "\n"}
         IN  IF takes = {} THEN NoMatch
             ELSE LET k  == CHOOSE x \in takes : \A y \in takes : y <= x
                      ts == i + 1 + k
                  IN  [found |-> TRUE,
                       group |-> SubSeq(s, ts, LineEnd(s, ts) - 1)]

\* re.search: the match at the leftmost position that has one
TitleSearch(s) ==
    LET at == {j \in 1..Len(s) : TitleMatchAt(s, j).found}
    IN  IF at = {} THEN NoMatch ELSE TitleMatchAt(s, SetMin(at))

\* title = title_match.group(1) if title_match else <default>
ExtractTitle(content) ==
    LET title_match == TitleSearch(content)
    IN  IF title_match.found THEN title_match.group ELSE DefaultTitle

(***************************************************************************)
(* build_full_html, on trees                                                *)
(***************************************************************************)
\* the fixed texts of the template, abridged: the copy button's style sheet,
\* its script, its label and the toast's text
CopyBtnCss == ".copy-btn { position: fixed; top: 20px; right: 20px; }"

CopyScript == "function copyArticleContent() { }"

CopyLabel == "copy"

CopyToast == "copied"

Element(tag, parent, style, txt) ==
    [tag |-> tag, parent |-> parent, style |-> style, text |-> txt]

\* the template around {body}: html > head > (meta, meta, meta, title, style),
\* html > body > (button > (svg > path, span), div, script,
\*                section > div > div > {body})
Shell(title_text, css) ==
    << Element("html", 0, "", ""),
       Element("head", 1, "", ""),
       Element("meta", 2, "", ""),
       Element("meta", 2, "", ""),
       Element("meta", 2, "", ""),
       Element("title", 2, "", title_text),
       Element("style", 2, "", css \o "\n" \o CopyBtnCss),
       Element("body", 1, "", ""),
       Element("button", 8, "", ""),
       Element("svg", 9, "", ""),
       Element("path", 10, "", ""),
       Element("span", 9, "", CopyLabel),
       Element("div", 8, "", CopyToast),
       Element("script", 8, "", CopyScript),
       Element("section", 8, "background-color: #FAF9F5; min-height: 100vh; font-family: -apple-system, BlinkMacSystemFont, 'PingFang SC', 'Hiragino Sans GB', 'Microsoft YaHei', sans-serif; color: #333333; line-height: 1.75;", ""),
       Element("div", 15, "max-width: 680px; margin: 0 auto; background: #FAF9F5;", ""),
       Element("div", 16, "padding: 24px 20px 60px; background: #FAF9F5;", "") >>

BuildFullHtml(body, title_text, css) ==
    LET shell == Shell(title_text, css)
        n     == Len(shell)
    IN  shell \o
        [i \in 1..Len(body) |->
            [body[i] EXCEPT !.parent = IF body[i].parent = 0 THEN n
                                       ELSE body[i].parent + n]]

(***************************************************************************)
(* main                                                                     *)
(***************************************************************************)
InputPath == "/art/post.md"

\* the greatest index holding character ch, or 0
LastIndexOf(s, ch) ==
    LET S == {k \in 1..Len(s) : Char(s, k) = ch}
    IN  IF S = {} THEN 0 ELSE CHOOSE m \in S : \A k \in S : k <= m

\* Path.with_suffix(suffix)
WithSuffix(path, suffix) ==
    LET dot   == LastIndexOf(path, ".")
        slash == LastIndexOf(path, "/")
    IN  IF dot > slash + 1 THEN SubSeq(path, 1, dot - 1) \o suffix
        ELSE path \o suffix

\* what markdown.markdown may return for the text: the library is not part
\* of the program, its result is any of these fragments
RenderedBodies ==
    { << Element("p", 0, "", " \n"),
         Element("h2", 0, "", "Head"),
         Element("p", 0, "", "text"),
         Element("pre", 0, "", ""),
         Element("code", 4, "", "x") >> }

\* the style sheet load_css finds: "" when the template file is absent
CssTexts == {"", "body { margin: 0; }"}

\* the early return left out: the error is logged and main goes on
Main_CheckInputNoReturn ==
    /\ pc = "main"
    /\ pc' = "read"
    /\ logged' = IF input.exists THEN logged
                 ELSE Append(logged, "input file does not exist")
    /\ UNCHANGED <<text, fs, out1, out2, imgVars, calVars,
                   input, title, dirs, stages, output>>

\* if not args.input.exists(): logger.error(...); return
Main_CheckInput ==
    /\ pc = "main"
    /\ IF input.exists
       THEN pc' = "read" /\ logged' = logged
       ELSE pc' = "exit" /\ logged' = Append(logged, "input file does not exist")
    /\ UNCHANGED <<text, fs, out1, out2, imgVars, calVars,
                   input, title, dirs, stages, output>>

\* content = args.input.read_text(...); title_match = ...; title = ...
Main_ReadTitle ==
    /\ pc = "read"
    /\ text' = input.content
    /\ title' = ExtractTitle(input.content)
    /\ pc' = "mkdir"
    /\ UNCHANGED <<fs, out1, out2, imgVars, calVars,
                   input, dirs, stages, logged, output>>

\* assets_dir.mkdir(exist_ok=True); process_images(content, assets_dir) is entered
Main_Mkdir ==
    /\ pc = "mkdir"
    /\ dirs' = dirs \cup {AssetsDir}
    /\ stages' = Append(stages, "process_images")
    /\ pc' = "scan"
    /\ UNCHANGED <<text, fs, out1, out2, imgVars, calVars,
                   input, title, logged, output>>

\* content_with_embedded = embed_local_images(content_with_images, args.input.parent)
Main_Embed ==
    /\ pc = "returned"
    /\ out2' = EmbedLocalImages(out1, BaseDir, fs)
    /\ stages' = Append(stages, "embed_local_images")
    /\ pc' = "render"
    /\ UNCHANGED <<text, fs, out1, imgVars, calVars,
                   input, title, dirs, logged, output>>

\* body_html = markdown_to_html(content_with_embedded)
Main_Render ==
    /\ pc = "render"
    /\ doc' \in RenderedBodies
    /\ stages' = Append(stages, "markdown_to_html")
    /\ pc' = "build"
    /\ UNCHANGED <<text, fs, out1, out2, imgVars, soup, run, cal1, cal2,
                   input, title, dirs, logged, output>>

\* full_html = build_full_html(body_html, title); calibrate_code(full_html) is entered
Main_Build ==
    /\ pc = "build"
    /\ \E css \in CssTexts : soup' = BuildFullHtml(doc, title, css)
    /\ stages' = stages \o <<"build_full_html", "calibrate_code">>
    /\ pc' = "style"
    /\ UNCHANGED <<text, fs, out1, out2, imgVars, doc, run, cal1, cal2,
                   input, title, dirs, logged, output>>

\* output_path = args.output or args.input.with_suffix(".html");
\* output_path.write_text(final_html); the preview, when asked for
Main_Write ==
    /\ pc = "calibrated"
    /\ \E given \in {"", "/out/post.html"} :
          LET output_path == IF given = "" THEN WithSuffix(InputPath, ".html")
                             ELSE given
          IN  written' = Append(written, output_path)
    /\ output' = cal1
    /\ \E preview \in BOOLEAN :
          stages' = IF preview THEN Append(stages, "webbrowser.open") ELSE stages
    /\ pc' = "exit"
    /\ UNCHANGED <<text, fs, out1, out2, client, clock, img_matches, idx, full_prompt,
                   success, replacements, calls, calVars, input, title, dirs, logged>>

MainPieces ==
    { "# Title", "#", "## Sub", "body", "\n", "![Image](cat)" }

MainTexts == {Concat(ps) : ps \in SeqsUpTo(MainPieces, MaxMainPieces)}

InitMain ==
    /\ pc = "main"
    /\ input \in {[exists |-> FALSE, content |-> ""]}
                 \cup {[exists |-> TRUE, content |-> t] : t \in MainTexts}
    /\ fs = LocalFiles
    /\ client \in BOOLEAN
    /\ text = ""
    /\ out1 = ""
    /\ out2 = ""
    /\ clock = 0
    /\ img_matches = <<>>
    /\ idx = 0
    /\ full_prompt = ""
    /\ success = FALSE
    /\ replacements = <<>>
    /\ calls = <<>>
    /\ written = <<>>
    /\ doc = <<>>
    /\ soup = <<>>
    /\ run = 1
    /\ cal1 = <<>>
    /\ cal2 = <<>>
    /\ title = ""
    /\ dirs = {}
    /\ stages = <<>>
    /\ logged = <<>>
    /\ output = <<>>

NextMain ==
    \/ Main_CheckInput \/ Main_ReadTitle \/ Main_Mkdir
    \/ PI_Scan \/ PI_Expand \/ PI_Generate \/ PI_Record \/ PI_Return
    \/ Main_Embed \/ Main_Render \/ Main_Build
    \/ Cal_Style \/ Cal_Clean
    \/ Main_Write

SpecMain == InitMain /\ [][NextMain]_vars

(***************************************************************************)
(* Claims about main                                                        *)
(***************************************************************************)
\* C7: given an input path that does not exist, main logs an error and
\* returns with nothing written: no directory made, no image or HTML file
\* written, no remote call, no pipeline stage run.
C7_MissingInputNoWrites ==
    ~input.exists =>
        /\ pc \in {"main", "exit"}
        /\ pc = "exit" => logged = <<"input file does not exist">>
        /\ dirs = {}
        /\ written = <<>>
        /\ output = <<>>
        /\ fs = LocalFiles
        /\ stages = <<>>
        /\ calls = <<>>
        /\ out1 = "" /\ out2 = "" /\ soup = <<>> /\ cal1 = <<>>

\* main has returned on a missing input, the error logged
C7_Witness ==
    /\ ~input.exists
    /\ pc = "exit"
    /\ logged # <<>>
    /\ fs = LocalFiles

\* the lines of s, split at the line breaks, from 1-based position j on
RECURSIVE LinesFrom(_, _)
LinesFrom(s, j) ==
    IF j > Len(s) + 1 THEN <<>>
    ELSE <<SubSeq(s, j, LineEnd(s, j) - 1)>> \o LinesFrom(s, LineEnd(s, j) + 1)

\* the number of blanks and tabs a line has after its first character
RECURSIVE BlankRun(_, _)
BlankRun(l, j) ==
    IF j > Len(l) \/ Char(l, j) \notin {" ", "\t"} THEN 0
    ELSE 1 + BlankRun(l, j + 1)

\* a top-level heading line: "#", blanks, then the heading's text
IsHeadingLine(l) ==
    /\ Len(l) >= 3
    /\ Char(l, 1) = "#"
    /\ BlankRun(l, 2) >= 1
    /\ 1 + BlankRun(l, 2) < Len(l)

HeadingText(l) == SubSeq(l, 2 + BlankRun(l, 2), Len(l))

HeadingTexts(s) ==
    LET ls    == LinesFrom(s, 1)
        IsH(l) == IsHeadingLine(l)
        hs    == SelectSeq(ls, IsH)
    IN  [i \in 1..Len(hs) |-> HeadingText(hs[i])]

\* C10: when the text holds exactly one top-level heading line, the title
\* passed to build_full_html is that heading's text; when it holds none, the
\* title is the default title, whatever other lines it holds.
C10_TitleSelection ==
    (input.exists /\ pc \notin {"main", "read"}) =>
        LET hs == HeadingTexts(input.content)
        IN  /\ Len(hs) = 1 => title = hs[1]
            /\ Len(hs) = 0 => title = DefaultTitle
            /\ pc \in {"style", "clean", "calibrated"} => soup[6].text = title

(***************************************************************************)
(* Span replacement in both stages, over texts whose replacements are       *)
(* shorter and longer than the spans they replace                           *)
(***************************************************************************)
EmptyFilePath == "/art/pic/a-long-name-for-an-empty-file.gif"

\* the files beside the article, one of them empty: its data URI is shorter
\* than the reference that names it
SpliceFiles ==
    [p \in DOMAIN LocalFiles \cup {EmptyFilePath} |->
        IF p = EmptyFilePath THEN <<>> ELSE LocalFiles[p]]

SplicePieces ==
    { "![a](a.png)", "![](pic/a-long-name-for-an-empty-file.gif)",
      "![Image](cat)", "-", "\n" }

SpliceTexts == {Concat(ps) : ps \in SeqsUpTo(SplicePieces, MaxSplicePieces)}

InitSplice ==
    /\ text \in SpliceTexts
    /\ out1 = ""
    /\ out2 = ""
    /\ clock = 0
    /\ img_matches = <<>>
    /\ idx = 0
    /\ full_prompt = ""
    /\ success = FALSE
    /\ replacements = <<>>
    /\ calls = <<>>
    /\ written = <<>>
    /\ CalIdle
    /\ MainIdle
    /\ \/ /\ pc = "scan"
          /\ fs = Restrict(SpliceFiles, {})
          /\ client \in BOOLEAN
       \/ /\ pc = "embed"
          /\ fs \in {Restrict(SpliceFiles, S) : S \in SUBSET DOMAIN SpliceFiles}
          /\ client = FALSE

NextSplice == ProcessImagesNext \/ EmbedFirst

SpecSplice == InitSplice /\ [][NextSplice]_vars

\* how far the replacements before the k-th have moved the text behind them
RECURSIVE Shift(_, _)
Shift(reps, k) ==
    IF k <= 1 THEN 0
    ELSE Shift(reps, k - 1)
         + Len(reps[k - 1].replacement)
         - (reps[k - 1].end - reps[k - 1].start)

\* the spans lie in s in discovery order, none empty, none overlapping
SpansInOrder(s, reps) ==
    /\ \A k \in 1..Len(reps) :
           0 <= reps[k].start /\ reps[k].start < reps[k].end
                              /\ reps[k].end <= Len(s)
    /\ \A k \in 1..(Len(reps) - 1) : reps[k].end <= reps[k + 1].start

\* out is s with each span replaced by its own replacement and every
\* stretch outside the spans kept, in its place between the replacements
SplicedAsRecorded(s, reps, out) ==
    LET n       == Len(reps)
        from(k) == IF k = 0 THEN 0 ELSE reps[k].end
        to(k)   == IF k = n THEN Len(s) ELSE reps[k + 1].start
    IN  /\ Len(out) = Len(s) + Shift(reps, n + 1)
        /\ \A k \in 1..n :
               SubSeq(out, reps[k].start + Shift(reps, k) + 1,
                      reps[k].start + Shift(reps, k)
                          + Len(reps[k].replacement))
                   = reps[k].replacement
        /\ \A k \in 0..n :
               SubSeq(out, from(k) + Shift(reps, k + 1) + 1,
                      to(k) + Shift(reps, k + 1))
                   = SubSeq(s, from(k) + 1, to(k))

\* the replacements embed_local_images records for the text it was given
EmbedRecorded == EmbedReplacements(EmbedFindAll(text), BaseDir, fs)

\* C11: in process_images and in embed_local_images the recorded spans lie
\* in discovery order and the returned text is the source text with each
\* recorded span replaced by its own replacement, whatever the lengths of the
\* replacements, every character outside the spans kept in its place and
\* order.
C11_ReverseSplice ==
    /\ pc \in {"splice", "returned"} => SpansInOrder(text, replacements)
    /\ pc = "returned" => SplicedAsRecorded(text, replacements, out1)
    /\ pc = "embed_again" =>
           LET reps == EmbedRecorded
           IN  /\ SpansInOrder(text, reps)
               /\ SplicedAsRecorded(text, reps, out1)

\* embed_local_images has returned a text in which a replacement shorter
\* than its span comes before a longer one, with text kept between them
C11_Witness ==
    /\ pc = "embed_again"
    /\ LET reps == EmbedRecorded
       IN  \E j, k \in 1..Len(reps) :
               /\ j < k
               /\ Len(reps[j].replacement) < reps[j].end - reps[j].start
               /\ Len(reps[k].replacement) > reps[k].end - reps[k].start
               /\ reps[j].end < reps[k].start

=============================================================================
